---- MODULE Spec2Model ----
(***************************************************************************)
(* The chunk-hashed prefix trie of src/benchmark.py (TrieNode, HashTrie)   *)
(* and the asyncio tasks that run insert, longest_prefix_match_original    *)
(* and longest_prefix_match_new on it.                                     *)
(*                                                                         *)
(* A task is a coroutine.  Its position (pc) is named after the source     *)
(* line it is about to run: "i36" is insert about to enter                 *)
(* `async with node.lock` of line 36, "i37" is insert inside that block.   *)
(* Entering `async with node.lock` is the only await of the three          *)
(* coroutines, so a step of a task is either the acquisition of a lock or  *)
(* the code from one acquisition up to the next one (longest_prefix_match_ *)
(* new's lock-free lines 81-86 are a step of their own).  Other tasks may  *)
(* run whenever a task is at an acquisition: the runs in which             *)
(* asyncio.Lock.acquire returns at once, as it does on a free lock, are    *)
(* among them.                                                             *)
(***************************************************************************)
EXTENDS Integers, Sequences, FiniteSets, TLC

\* ------------------------------------------------------------------ bounds
\* Longest request text, in bytes.
MaxLen == 2
\* Largest chunk_size handed to the constructor.
MaxChunk == 2
\* Number of values of the chunk hash (2^64 in xxh64, scaled down so that
\* distinct chunks can collide as they can in 64 bits).
HashSpace == 5
\* Task slots of the event loop: how many coroutines are alive together.
MaxTasks == 2
\* Distinct request texts the sequential driver inserts.
MaxTexts == 2

\* ------------------------------------------------------------------ inputs
\* utf-8 bytes of the request alphabet ('a', 'b' of string.ascii_lowercase).
Bytes == {97, 98}
\* f"endpoint_{i}"
Endpoints == {"endpoint_0", "endpoint_1"}

RECURSIVE Texts(_)
Texts(n) ==
  IF n = 0 THEN {<<>>}
  ELSE LET shorter == Texts(n - 1)
       IN  shorter \cup {Append(s, b) : s \in {x \in shorter : Len(x) = n - 1}, b \in Bytes}

Requests == Texts(MaxLen)

\* Arguments tried on HashTrie(chunk_size=...): an integer, or a non-integer
\* (a float such as 1.5, kept as its integer part and the flag).
ChunkSizeArgs == [isint : BOOLEAN, val : (-1)..MaxChunk]

\* ------------------------------------------------------------ chunk / hash
\* xxhash.xxh64(bytes).intdigest(): a deterministic function of the bytes
\* into a fixed-width integer, not injective.
RECURSIVE XXH64Fold(_, _)
XXH64Fold(h, bytes) ==
  IF bytes = <<>> THEN h
  ELSE XXH64Fold((h * 31 + Head(bytes)) % HashSpace, Tail(bytes))

XXH64(bytes) == XXH64Fold(0, bytes)

Min(a, b) == IF a < b THEN a ELSE b

\* range(0, len(text), chunk_size): the number of windows.
NumChunks(text, cs) == (Len(text) + cs - 1) \div cs

\* text[i : i + chunk_size] for the k-th window (k = 1, 2, ...), i = (k-1)*cs.
Chunk(text, cs, k) == SubSeq(text, (k - 1) * cs + 1, Min(k * cs, Len(text)))

\* _chunk_and_hash: the sequence of hashes the generator yields.
ChunkAndHash(text, cs) == [k \in 1..NumChunks(text, cs) |-> XXH64(Chunk(text, cs, k))]


\* The longest text handed to a generator that is iterated by itself.
MaxTextLen == 4

\* ------------------------------------------------------------------- state
VARIABLES
  ctor,                 \* "none" before HashTrie(...), then "ok" or "error" (ValueError)
  chunk_size,           \* HashTrie.chunk_size (0 while there is no trie)
  children,             \* node id -> TrieNode.children (chunk hash -> node id)
  endpoints,            \* node id -> TrieNode.endpoints
  lock,                 \* node id -> the task holding TrieNode.lock, 0 when free
  waiters,              \* node id -> the tasks queued on TrieNode.lock, oldest first
  tasks,                \* task slot -> the coroutine's position and locals
  inserted,             \* history: the (request, endpoint) pairs whose insert returned
  request_string,       \* main's request_string
  available_endpoints,  \* main's endpoints, handed to every lookup of a workload
  chunk_size_arg,       \* history: the chunk_size the caller handed to HashTrie(...)
  gen                   \* a _chunk_and_hash(text) generator a caller iterates by itself

vars == <<ctor, chunk_size, children, endpoints, lock, waiters, tasks, inserted,
          request_string, available_endpoints, chunk_size_arg, gen>>

trieVars == <<children, endpoints>>
driverVars == <<request_string, available_endpoints, chunk_size_arg, gen>>

\* self.root
Root == 1

\* No generator has been created.
NoGen == [state |-> "none", text |-> <<>>, i |-> 0, windows |-> <<>>, hashes |-> <<>>]
\* None, for a node reference
None == 0
Nodes == 1..Len(children)
Slots == 1..MaxTasks

NoEndpoint == ""
NoWaiters == <<>>

\* start_match is history: the match_length a lookup would have reached on the
\* trie as it was when the task was created.
IdleTask ==
  [kind |-> "none", pc |-> "idle", request |-> <<>>, endpoint |-> NoEndpoint,
   available |-> {}, node |-> None, i |-> 0, match_length |-> 0, selected |-> {},
   copy |-> {}, stop |-> "", start_match |-> 0]

\* The positions at which a coroutine is about to enter `async with node.lock`.
AcquirePcs == {"i36", "i39", "i45", "a55", "b75", "b79"}

\* The first line inside the `async with` block entered at pc.
Inside(pc) ==
  CASE pc = "i36" -> "i37"
    [] pc = "i39" -> "i40"
    [] pc = "i45" -> "i46"
    [] pc = "a55" -> "a56"
    [] pc = "b75" -> "b76"
    [] pc = "b79" -> "b80"

Lookups == {"original", "new"}

\* The chunk hashes of a task's request, and the one its loop is at.
HashesOf(tk) == ChunkAndHash(tk.request, chunk_size)
ChunkHash(tk) == HashesOf(tk)[tk.i + 1]

\* The locks a task holds.
Held(t) == {n \in Nodes : lock[n] = t}

EmptyMap == [h \in {} |-> None]

\* ------------------------------------------------------------ construction
\* Before HashTrie(...) is called no argument has been handed over.
NoArg == [isint |-> FALSE, val |-> 0]

\* Mutant of HashTrieInit: the test is `chunk_size < 0`, so 0 is accepted.
HashTrieInitAcceptsZero(arg) ==
  /\ ctor = "none"
  /\ chunk_size_arg' = arg
  /\ IF ~arg.isint \/ arg.val < 0
     THEN /\ ctor' = "error"
          /\ UNCHANGED <<chunk_size, children, endpoints, lock, waiters>>
     ELSE /\ ctor' = "ok"
          /\ chunk_size' = arg.val
          /\ children' = <<EmptyMap>>
          /\ endpoints' = <<{}>>
          /\ lock' = <<0>>
          /\ waiters' = <<NoWaiters>>
  /\ UNCHANGED <<tasks, inserted, request_string, available_endpoints, gen>>

\* HashTrie.__init__: the ValueError of line 26 is raised before line 27 and
\* line 28 assign chunk_size and root.
HashTrieInit(arg) ==
  /\ ctor = "none"
  /\ chunk_size_arg' = arg
  /\ IF ~arg.isint \/ arg.val <= 0
     THEN /\ ctor' = "error"
          /\ UNCHANGED <<chunk_size, children, endpoints, lock, waiters>>
     ELSE /\ ctor' = "ok"
          /\ chunk_size' = arg.val
          /\ children' = <<EmptyMap>>
          /\ endpoints' = <<{}>>
          /\ lock' = <<0>>
          /\ waiters' = <<NoWaiters>>
  /\ UNCHANGED <<tasks, inserted, request_string, available_endpoints, gen>>

\* --------------------------------------------------------------- the lock
\* asyncio.Lock.acquire: taken at once when free and nobody waits; a waiter
\* takes it when it is free and the waiter is the oldest.
Acquire(t) ==
  LET tk == tasks[t] n == tk.node IN
  /\ ctor = "ok"
  /\ tk.pc \in AcquirePcs
  /\ lock[n] = 0
  /\ \/ waiters[n] = <<>>
     \/ (waiters[n] # <<>> /\ Head(waiters[n]) = t)
  /\ lock' = [lock EXCEPT ![n] = t]
  /\ waiters' = [waiters EXCEPT ![n] = IF @ = <<>> THEN @ ELSE Tail(@)]
  /\ tasks' = [tasks EXCEPT ![t].pc = Inside(tk.pc)]
  /\ UNCHANGED <<ctor, chunk_size, trieVars, inserted, driverVars>>

InQueue(t, n) == \E k \in 1..Len(waiters[n]) : waiters[n][k] = t

\* asyncio.Lock.acquire on a lock that is held, or that others wait for: the
\* task joins the queue and is suspended.
Enqueue(t) ==
  LET tk == tasks[t] n == tk.node IN
  /\ ctor = "ok"
  /\ tk.pc \in AcquirePcs
  /\ ~InQueue(t, n)
  /\ (lock[n] # 0 \/ waiters[n] # <<>>)
  /\ waiters' = [waiters EXCEPT ![n] = Append(@, t)]
  /\ UNCHANGED <<ctor, chunk_size, trieVars, lock, tasks, inserted, driverVars>>

\* Mutant of Release: leaving the block does not release the lock.
ReleaseNever(n) == lock

\* asyncio.Lock.release, at the end of an `async with node.lock` block.
Release(n) == [lock EXCEPT ![n] = 0]

\* ------------------------------------------------------------------ insert
\* Mutant of AddEndpoint: the set is replaced, not added to.
AddEndpointOverwrites(set, endpoint) == {endpoint}

\* node.endpoints.add(endpoint)
AddEndpoint(set, endpoint) == set \cup {endpoint}

\* Mutant of GetChild: the lookup never finds the child.
GetChildNone(n, h) == None

\* node.children.get(chunk_hash)
GetChild(n, h) == IF h \in DOMAIN children[n] THEN children[n][h] ELSE None

\* node.children[chunk_hash] = child_node
SetItem(map, h, child_node) ==
  [x \in (DOMAIN map) \cup {h} |-> IF x = h THEN child_node ELSE map[x]]

\* The for loop of insert asks the generator for the next chunk hash.
InsertLoop(tk) == IF tk.i < NumChunks(tk.request, chunk_size) THEN "i39" ELSE "done"

\* What a returning insert leaves in the history.
Returned(tk, pc) ==
  IF pc = "done" /\ tk.kind = "insert"
  THEN inserted \cup {<<tk.request, tk.endpoint>>}
  ELSE inserted

\* Mutant of InsertAddRoot: the root's block releases the lock without adding
\* the endpoint.
InsertAddRootSkips(t) ==
  LET tk == tasks[t] n == tk.node pc == InsertLoop(tk) IN
  /\ tk.pc = "i37"
  /\ lock' = Release(n)
  /\ tasks' = [tasks EXCEPT ![t].pc = pc]
  /\ inserted' = Returned(tk, pc)
  /\ UNCHANGED <<ctor, chunk_size, trieVars, waiters, driverVars>>

\* Lines 36-37: under the root's lock, root.endpoints.add(endpoint).
InsertAddRoot(t) ==
  LET tk == tasks[t] n == tk.node pc == InsertLoop(tk) IN
  /\ tk.pc = "i37"
  /\ endpoints' = [endpoints EXCEPT ![n] = AddEndpoint(@, tk.endpoint)]
  /\ lock' = Release(n)
  /\ tasks' = [tasks EXCEPT ![t].pc = pc]
  /\ inserted' = Returned(tk, pc)
  /\ UNCHANGED <<ctor, chunk_size, children, waiters, driverVars>>

\* Mutant of InsertGetOrCreate: the block does not look the child up; it
\* creates a node and binds the chunk hash to it every time.
InsertAlwaysCreates(t) ==
  LET tk == tasks[t] n == tk.node h == ChunkHash(tk)
      fresh == Len(children) + 1
  IN
  /\ tk.pc = "i40"
  /\ children' = Append([children EXCEPT ![n] = SetItem(@, h, fresh)], EmptyMap)
  /\ endpoints' = Append(endpoints, {})
  /\ lock' = Append(Release(n), 0)
  /\ waiters' = Append(waiters, NoWaiters)
  /\ tasks' = [tasks EXCEPT ![t].pc = "i45", ![t].node = fresh]
  /\ UNCHANGED <<ctor, chunk_size, inserted, driverVars>>

\* Lines 39-44: under node's lock, look the child up or create it; descend.
InsertGetOrCreate(t) ==
  LET tk == tasks[t] n == tk.node h == ChunkHash(tk)
      child_node == GetChild(n, h)
      fresh == Len(children) + 1
  IN
  /\ tk.pc = "i40"
  /\ IF child_node = None
     THEN /\ children' = Append([children EXCEPT ![n] = SetItem(@, h, fresh)], EmptyMap)
          /\ endpoints' = Append(endpoints, {})
          /\ lock' = Append(Release(n), 0)
          /\ waiters' = Append(waiters, NoWaiters)
          /\ tasks' = [tasks EXCEPT ![t].pc = "i45", ![t].node = fresh]
     ELSE /\ lock' = Release(n)
          /\ tasks' = [tasks EXCEPT ![t].pc = "i45", ![t].node = child_node]
          /\ UNCHANGED <<children, endpoints, waiters>>
  /\ UNCHANGED <<ctor, chunk_size, inserted, driverVars>>

\* Lines 45-46: under the child's lock, child.endpoints.add(endpoint).
InsertAddChild(t) ==
  LET tk == tasks[t] n == tk.node
      next == [tk EXCEPT !.i = @ + 1]
      pc == InsertLoop(next)
  IN
  /\ tk.pc = "i46"
  /\ endpoints' = [endpoints EXCEPT ![n] = AddEndpoint(@, tk.endpoint)]
  /\ lock' = Release(n)
  /\ tasks' = [tasks EXCEPT ![t] = [next EXCEPT !.pc = pc]]
  /\ inserted' = Returned(tk, pc)
  /\ UNCHANGED <<ctor, chunk_size, children, waiters, driverVars>>

\* ---------------------------------------- longest_prefix_match_original
\* Mutant of Intersection: the available endpoints are not taken into account.
IntersectionIgnoresSelected(a, b) == a

\* endpoints.intersection(selected_endpoints)
Intersection(a, b) == a \cap b

\* Mutant of Advance: the match is counted in chunks, not in bytes.
AdvanceByOne(match_length) == match_length + 1

\* match_length += self.chunk_size
Advance(match_length) == match_length + chunk_size

\* Mutant of LookupLoop: the loop is left after its first pass.
LookupLoopOnce(tk, acq) ==
  IF tk.i = 0 /\ tk.i < NumChunks(tk.request, chunk_size)
  THEN [tk EXCEPT !.pc = acq]
  ELSE [tk EXCEPT !.pc = "done", !.stop = "exhausted"]

\* The for loop of a lookup asks the generator for the next chunk hash;
\* acq is where the loop body starts.
LookupLoop(tk, acq) ==
  IF tk.i < NumChunks(tk.request, chunk_size)
  THEN [tk EXCEPT !.pc = acq]
  ELSE [tk EXCEPT !.pc = "done", !.stop = "exhausted"]

\* Lines 55-67, one pass of the loop body, all under the lock of the node
\* the pass started at.
OriginalBody(t) ==
  LET tk == tasks[t] n == tk.node h == ChunkHash(tk)
      child == GetChild(n, h)
  IN
  /\ tk.pc = "a56"
  /\ IF child # None
     THEN LET common == Intersection(endpoints[child], tk.selected) IN
          /\ tasks' = [tasks EXCEPT ![t] =
               IF common = {}
               THEN [tk EXCEPT !.node = child, !.pc = "done", !.stop = "empty"]
               ELSE LookupLoop([tk EXCEPT !.node = child,
                                          !.match_length = Advance(@),
                                          !.selected = common,
                                          !.i = @ + 1], "a55")]
     ELSE /\ tasks' = [tasks EXCEPT ![t] = [tk EXCEPT !.pc = "done", !.stop = "missing"]]
  /\ lock' = Release(n)
  /\ UNCHANGED <<ctor, chunk_size, trieVars, waiters, inserted, driverVars>>

\* --------------------------------------------- longest_prefix_match_new
\* Mutant of NewGetChild: a missing child is created, as insert does.
NewGetChildCreates(t) ==
  LET tk == tasks[t] n == tk.node h == ChunkHash(tk)
      child == GetChild(n, h)
      fresh == Len(children) + 1
  IN
  /\ tk.pc = "b76"
  /\ IF child = None
     THEN /\ children' = Append([children EXCEPT ![n] = SetItem(@, h, fresh)], EmptyMap)
          /\ endpoints' = Append(endpoints, {})
          /\ lock' = Append(Release(n), 0)
          /\ waiters' = Append(waiters, NoWaiters)
          /\ tasks' = [tasks EXCEPT ![t] = [tk EXCEPT !.node = fresh, !.pc = "b79"]]
     ELSE /\ tasks' = [tasks EXCEPT ![t] = [tk EXCEPT !.node = child, !.pc = "b79"]]
          /\ lock' = Release(n)
          /\ UNCHANGED <<trieVars, waiters>>
  /\ UNCHANGED <<ctor, chunk_size, inserted, driverVars>>

\* Lines 75-78: under node's lock, node = node.children.get(chunk_hash).
NewGetChild(t) ==
  LET tk == tasks[t] n == tk.node h == ChunkHash(tk)
      child == GetChild(n, h)
  IN
  /\ tk.pc = "b76"
  /\ tasks' = [tasks EXCEPT ![t] =
       IF child = None
       THEN [tk EXCEPT !.node = None, !.pc = "done", !.stop = "missing"]
       ELSE [tk EXCEPT !.node = child, !.pc = "b79"]]
  /\ lock' = Release(n)
  /\ UNCHANGED <<ctor, chunk_size, trieVars, waiters, inserted, driverVars>>

\* Mutant of NewCopy: the child's lock is still held when the block is left,
\* so the intersection is computed under it.
NewCopyKeepsLock(t) ==
  LET tk == tasks[t] n == tk.node IN
  /\ tk.pc = "b80"
  /\ tasks' = [tasks EXCEPT ![t] = [tk EXCEPT !.copy = endpoints[n], !.pc = "b81"]]
  /\ UNCHANGED <<ctor, chunk_size, trieVars, lock, waiters, inserted, driverVars>>

\* Lines 79-80: under the child's lock, endpoints = node.endpoints.copy().
NewCopy(t) ==
  LET tk == tasks[t] n == tk.node IN
  /\ tk.pc = "b80"
  /\ tasks' = [tasks EXCEPT ![t] = [tk EXCEPT !.copy = endpoints[n], !.pc = "b81"]]
  /\ lock' = Release(n)
  /\ UNCHANGED <<ctor, chunk_size, trieVars, waiters, inserted, driverVars>>

\* Mutant of NewIntersect: the peeked child counts as matched before the
\* intersection is looked at.
NewIntersectCountsPeek(t) ==
  LET tk == tasks[t]
      intersection == Intersection(tk.copy, tk.selected)
  IN
  /\ tk.pc = "b81"
  /\ tasks' = [tasks EXCEPT ![t] =
       IF intersection = {}
       THEN [tk EXCEPT !.pc = "done", !.stop = "empty", !.copy = {},
                       !.match_length = Advance(@)]
       ELSE LookupLoop([tk EXCEPT !.match_length = Advance(@),
                                  !.selected = intersection,
                                  !.copy = {},
                                  !.i = @ + 1], "b75")]
  /\ UNCHANGED <<ctor, chunk_size, trieVars, lock, waiters, inserted, driverVars>>

\* Lines 81-86: the intersection and the decision, on the copy.
NewIntersect(t) ==
  LET tk == tasks[t]
      intersection == Intersection(tk.copy, tk.selected)
  IN
  /\ tk.pc = "b81"
  \* (`endpoints` is dead after line 81: the copy is dropped here)
  /\ tasks' = [tasks EXCEPT ![t] =
       IF intersection = {}
       THEN [tk EXCEPT !.pc = "done", !.stop = "empty", !.copy = {}]
       ELSE LookupLoop([tk EXCEPT !.match_length = Advance(@),
                                  !.selected = intersection,
                                  !.copy = {},
                                  !.i = @ + 1], "b75")]
  /\ UNCHANGED <<ctor, chunk_size, trieVars, lock, waiters, inserted, driverVars>>

\* The for loop of either lookup method run from node n to its end with no
\* other task in between, on the trie as it is: the match_length it ends with.
RECURSIVE MatchFrom(_, _, _, _)
MatchFrom(n, hashes, selected, match_length) ==
  IF hashes = <<>> THEN match_length
  ELSE LET child == GetChild(n, Head(hashes)) IN
       IF child = None THEN match_length
       ELSE LET common == Intersection(endpoints[child], selected) IN
            IF common = {} THEN match_length
            ELSE MatchFrom(child, Tail(hashes), common, Advance(match_length))

LookupAlone(request, available) ==
  MatchFrom(Root, ChunkAndHash(request, chunk_size), available, 0)

\* ------------------------------------------------------------------- tasks
\* The nodes whose children or endpoints the block a task is inside of reads
\* or writes: the node the task is at, and for longest_prefix_match_original
\* also the child, whose endpoints lines 61 and 65 read after line 58 has
\* moved `node` to it.
Touches(t) ==
  LET tk == tasks[t] n == tk.node IN
  CASE tk.pc \in {"i37", "i40", "i46", "b76", "b80"} -> {n}
    [] tk.pc = "a56" -> {n} \cup ({GetChild(n, ChunkHash(tk))} \ {None})
    [] OTHER -> {}

\* asyncio.create_task(method(request, ...)): the coroutine runs its first
\* lines (the locals, the first turn of a lookup's for loop) up to its first
\* `async with`.  A task takes the lowest free slot.
FreeSlot(t) == tasks[t].pc = "idle" /\ \A u \in 1..(t - 1) : tasks[u].pc # "idle"

NewTask(kind, request, endpoint, available) ==
  LET tk == [IdleTask EXCEPT !.kind = kind, !.request = request, !.endpoint = endpoint,
                             !.available = available, !.node = Root,
                             !.start_match = IF kind = "insert" THEN 0
                                             ELSE LookupAlone(request, available)]
  IN CASE kind = "insert"   -> [tk EXCEPT !.pc = "i36"]
       [] kind = "original" -> LookupLoop([tk EXCEPT !.selected = available], "a55")
       [] kind = "new"      -> LookupLoop([tk EXCEPT !.selected = available], "b75")

CreateTask(t, kind, request, endpoint, available) ==
  /\ ctor = "ok"
  /\ FreeSlot(t)
  /\ tasks' = [tasks EXCEPT ![t] = NewTask(kind, request, endpoint, available)]
  /\ UNCHANGED <<ctor, chunk_size, trieVars, lock, waiters, inserted, driverVars>>

\* `await trie.insert(...)` / `await asyncio.gather(*tasks)` return: a
\* coroutine that has returned is collected and its slot is free again.
Gather(t) ==
  /\ tasks[t].pc = "done"
  /\ tasks' = [tasks EXCEPT ![t] = IdleTask]
  /\ UNCHANGED <<ctor, chunk_size, trieVars, lock, waiters, inserted, driverVars>>

\* --------------------------------------------------- the concurrent driver
\* One workload of up to MaxTasks tasks on a new trie, all alive together;
\* inserts may be among them.
\* main's initial_prefix = request_string[:REQUEST_LENGTH // 2]
InitialPrefix == SubSeq(request_string, 1, Len(request_string) \div 2)

\* An insert of the workload: the initial prefix or the whole request.
StartInsert(t, request, endpoint) ==
  /\ request \in {InitialPrefix, request_string}
  /\ CreateTask(t, "insert", request, endpoint, {})

\* run_workload: every task of a workload gets request_string and endpoints.
StartLookup(t, kind) ==
  CreateTask(t, kind, request_string, NoEndpoint, available_endpoints)

Init ==
  /\ ctor = "none"
  /\ chunk_size = 0
  /\ children = <<>>
  /\ endpoints = <<>>
  /\ lock = <<>>
  /\ waiters = <<>>
  /\ tasks = [t \in Slots |-> IdleTask]
  /\ inserted = {}
  /\ request_string \in Requests
  /\ available_endpoints \in SUBSET Endpoints
  /\ chunk_size_arg = NoArg
  /\ gen = NoGen

Step(t) ==
  \/ Acquire(t)
  \/ Enqueue(t)
  \/ InsertAddRoot(t)
  \/ InsertGetOrCreate(t)
  \/ InsertAddChild(t)
  \/ OriginalBody(t)
  \/ NewGetChild(t)
  \/ NewCopy(t)
  \/ NewIntersect(t)

Next ==
  \/ \E arg \in ChunkSizeArgs : HashTrieInit(arg)
  \/ \E t \in Slots, r \in Requests, e \in Endpoints : StartInsert(t, r, e)
  \/ \E t \in Slots, k \in Lookups : StartLookup(t, k)
  \/ \E t \in Slots : Step(t)

Spec == Init /\ [][Next]_vars

\* The event loop runs every task that is ready: a task that can take a step
\* is not passed over forever.
FairSpec == Spec /\ \A t \in Slots : WF_vars(Step(t))

\* --------------------------------------------------- the sequential driver
\* One coroutine at a time, as main's `await trie.insert(...)` loop runs
\* them, with any request, endpoint and available set; a finished lookup may
\* be followed by the other method on the same arguments, as main does.
Quiet == \A t \in Slots : tasks[t].pc = "idle"

TextsOf(pairs) == {p[1] : p \in pairs}

SeqInsert(request, endpoint) ==
  /\ Quiet
  /\ Cardinality(TextsOf(inserted) \cup {request}) <= MaxTexts
  /\ CreateTask(1, "insert", request, endpoint, {})

SeqLookup(kind, request, available) ==
  /\ Quiet
  /\ CreateTask(1, kind, request, NoEndpoint, available)

\* main, lines 126-134: the other method, on the same trie and arguments.
SeqLookupOther(kind) ==
  /\ tasks[1].pc = "done"
  /\ tasks[1].kind \in Lookups \ {kind}
  /\ CreateTask(2, kind, tasks[1].request, NoEndpoint, tasks[1].available)

SeqInit ==
  /\ ctor = "none"
  /\ chunk_size = 0
  /\ children = <<>>
  /\ endpoints = <<>>
  /\ lock = <<>>
  /\ waiters = <<>>
  /\ tasks = [t \in Slots |-> IdleTask]
  /\ inserted = {}
  /\ request_string = <<>>
  /\ available_endpoints = {}
  /\ chunk_size_arg = NoArg
  /\ gen = NoGen

SeqStep(t) ==
  \/ Acquire(t)
  \/ InsertAddRoot(t)
  \/ InsertGetOrCreate(t)
  \/ InsertAddChild(t)
  \/ OriginalBody(t)
  \/ NewGetChild(t)
  \/ NewCopy(t)
  \/ NewIntersect(t)

SeqNext ==
  \/ \E arg \in ChunkSizeArgs : HashTrieInit(arg)
  \/ \E r \in Requests, e \in Endpoints : SeqInsert(r, e)
  \/ \E k \in Lookups, r \in Requests, a \in SUBSET Endpoints : SeqLookup(k, r, a)
  \/ \E k \in Lookups : SeqLookupOther(k)
  \/ \E t \in Slots : SeqStep(t)
  \/ \E t \in Slots : Gather(t)

SpecSeq == SeqInit /\ [][SeqNext]_vars

\* ------------------------------------------------ the generator by itself
\* _chunk_and_hash(text) on a constructed trie: the generator object is
\* created; nothing of its body has run.
ChunkStart(text) ==
  /\ ctor = "ok"
  /\ gen.state # "running"
  /\ gen' = [state |-> "running", text |-> text, i |-> 0, windows |-> <<>>, hashes |-> <<>>]
  /\ UNCHANGED <<ctor, chunk_size, trieVars, lock, waiters, tasks, inserted,
                 request_string, available_endpoints, chunk_size_arg>>

\* Mutant of ChunkNext: a window shorter than chunk_size is not yielded.
ChunkNextDropsTail ==
  LET i == gen.i
      window == SubSeq(gen.text, i + 1, Min(i + chunk_size, Len(gen.text)))
  IN
  /\ gen.state = "running"
  /\ IF i + chunk_size <= Len(gen.text)
     THEN gen' = [gen EXCEPT !.i = i + chunk_size,
                             !.windows = Append(@, window),
                             !.hashes = Append(@, XXH64(window))]
     ELSE gen' = [gen EXCEPT !.state = "finished"]
  /\ UNCHANGED <<ctor, chunk_size, trieVars, lock, waiters, tasks, inserted,
                 request_string, available_endpoints, chunk_size_arg>>

\* next() on the generator: one turn of `for i in range(0, len(text),
\* self.chunk_size)`, which yields xxh64 of text[i : i + chunk_size], or the
\* end of the range.  `windows` keeps the slices the hashes were taken of.
ChunkNext ==
  LET i == gen.i
      window == SubSeq(gen.text, i + 1, Min(i + chunk_size, Len(gen.text)))
  IN
  /\ gen.state = "running"
  /\ IF i < Len(gen.text)
     THEN gen' = [gen EXCEPT !.i = i + chunk_size,
                             !.windows = Append(@, window),
                             !.hashes = Append(@, XXH64(window))]
     ELSE gen' = [gen EXCEPT !.state = "finished"]
  /\ UNCHANGED <<ctor, chunk_size, trieVars, lock, waiters, tasks, inserted,
                 request_string, available_endpoints, chunk_size_arg>>

ChunkSpecNext ==
  \/ \E arg \in ChunkSizeArgs : HashTrieInit(arg)
  \/ \E text \in Texts(MaxTextLen) : ChunkStart(text)
  \/ ChunkNext

SpecChunk == SeqInit /\ [][ChunkSpecNext]_vars

\* ================================================================== claims
DoneLookup(t) == tasks[t].pc = "done" /\ tasks[t].kind \in Lookups

Max(S) == CHOOSE x \in S : \A y \in S : y <= x

\* The first k chunks of texts r and q are the same bytes.
SameChunks(r, q, k) ==
  /\ NumChunks(r, chunk_size) >= k
  /\ NumChunks(q, chunk_size) >= k
  /\ \A j \in 1..k : Chunk(r, chunk_size, j) = Chunk(q, chunk_size, j)

\* The first k chunks of texts r and q have the same hashes.
SameHashes(r, q, k) ==
  /\ NumChunks(r, chunk_size) >= k
  /\ NumChunks(q, chunk_size) >= k
  /\ \A j \in 1..k : XXH64(Chunk(r, chunk_size, j)) = XXH64(Chunk(q, chunk_size, j))

\* The largest k for which an available endpoint has inserted a request with
\* the same first k chunks as q; 0 when there is none.
LongestSameChunks(q, available) ==
  LET ks == {k \in 1..NumChunks(q, chunk_size) :
               \E p \in inserted : p[2] \in available /\ SameChunks(p[1], q, k)}
  IN IF ks = {} THEN 0 ELSE Max(ks)

\* The largest k for which an available endpoint has inserted a request with
\* the same first k chunk hashes as q; 0 when there is none.
LongestSameHashes(q, available) ==
  LET ks == {k \in 1..NumChunks(q, chunk_size) :
               \E p \in inserted : p[2] \in available /\ SameHashes(p[1], q, k)}
  IN IF ks = {} THEN 0 ELSE Max(ks)

\* C1 as stated: on a quiescent trie both lookups stop with
\* matched_length / chunk_size equal to the largest k such that an available
\* endpoint has inserted a request whose first k chunks are identical to the
\* first k chunks of the looked-up request.
C1_IdenticalChunks ==
  \A t \in Slots : DoneLookup(t) =>
    /\ tasks[t].i = LongestSameChunks(tasks[t].request, tasks[t].available)
    /\ tasks[t].match_length = chunk_size * tasks[t].i

\* C1 amended: on a quiescent trie both lookups stop with
\* matched_length / chunk_size equal to the largest k such that an available
\* endpoint has inserted a request whose first k chunk hashes are equal to
\* the first k chunk hashes of the looked-up request.
C1_EqualHashes ==
  \A t \in Slots : DoneLookup(t) =>
    /\ tasks[t].i = LongestSameHashes(tasks[t].request, tasks[t].available)
    /\ tasks[t].match_length = chunk_size * tasks[t].i

\* A lookup that matched some chunks of its request and not all of them.
C1_Witness ==
  \E t \in Slots :
    /\ DoneLookup(t)
    /\ tasks[t].kind = "new"
    /\ tasks[t].i > 0
    /\ tasks[t].i < NumChunks(tasks[t].request, chunk_size)
    /\ tasks[t].stop = "empty"

\* C3: on a trie nobody changes, longest_prefix_match_original and
\* longest_prefix_match_new, given the same request and available set, end
\* with the same match_length and the same selected_endpoints.
C3_VariantsAgree ==
  ( /\ DoneLookup(1) /\ DoneLookup(2)
    /\ tasks[1].kind # tasks[2].kind
    /\ tasks[1].request = tasks[2].request
    /\ tasks[1].available = tasks[2].available )
  => /\ tasks[1].match_length = tasks[2].match_length
     /\ tasks[1].selected = tasks[2].selected

\* Both methods have run on the same arguments, matched a chunk, narrowed the
\* available set and stopped before the end of the request.
C3_Witness ==
  /\ DoneLookup(1) /\ DoneLookup(2)
  /\ tasks[1].kind # tasks[2].kind
  /\ tasks[1].request = tasks[2].request
  /\ tasks[1].available = tasks[2].available
  /\ tasks[2].match_length > 0
  /\ tasks[2].selected # tasks[2].available
  /\ tasks[2].i < NumChunks(tasks[2].request, chunk_size)

\* C4 as stated: after insert(P, e) has returned for every e of a non-empty
\* set E on an otherwise empty trie, a lookup of P with available = E ends
\* with match_length = len(P) and selected = E, under both methods, also when
\* len(P) is not a multiple of chunk_size.
C4_FullLength ==
  \A t \in Slots :
    ( /\ DoneLookup(t)
      /\ tasks[t].available # {}
      /\ inserted = {<<tasks[t].request, e>> : e \in tasks[t].available} )
    => /\ tasks[t].match_length = Len(tasks[t].request)
       /\ tasks[t].selected = tasks[t].available

\* The case of C5: P was inserted for every endpoint of E (two or more), then
\* P + suffix for e1 of E alone, and task t has looked P + suffix up with
\* available = E.
C5_Case(t, P, e1) ==
  /\ DoneLookup(t)
  /\ e1 \in tasks[t].available
  /\ Cardinality(tasks[t].available) >= 2
  /\ Len(P) < Len(tasks[t].request)
  /\ P = SubSeq(tasks[t].request, 1, Len(P))
  /\ inserted = {<<P, e>> : e \in tasks[t].available} \cup {<<tasks[t].request, e1>>}

\* C5 as stated: the lookup of P + suffix matches exactly up to the point
\* where e1's path leaves the path of P, and stops there (stated for a
\* non-empty P that ends on a chunk boundary, where that point is len(P)).
C5_StopsAtCommonPrefix ==
  \A t \in Slots, P \in Requests \ {<<>>}, e1 \in Endpoints :
    (C5_Case(t, P, e1) /\ Len(P) % chunk_size = 0) =>
      /\ tasks[t].i = LongestSameChunks(tasks[t].request, tasks[t].available \ {e1})
      /\ tasks[t].match_length = chunk_size * tasks[t].i

\* C5 amended: the lookup of P + suffix does not stop where e1's path leaves
\* the path of P: it matches every chunk of P + suffix and ends with
\* selected = {e1} (all of E when P and P + suffix have the same chunk hashes).
C5_FollowsLongestPath ==
  \A t \in Slots, P \in Requests, e1 \in Endpoints :
    C5_Case(t, P, e1) =>
      /\ tasks[t].i = NumChunks(tasks[t].request, chunk_size)
      /\ tasks[t].match_length = chunk_size * NumChunks(tasks[t].request, chunk_size)
      /\ tasks[t].stop = "exhausted"
      /\ tasks[t].selected =
           IF ChunkAndHash(P, chunk_size) = ChunkAndHash(tasks[t].request, chunk_size)
           THEN tasks[t].available ELSE {e1}

\* The case of C5 with a suffix that adds a chunk to a non-empty P.
C5_Witness ==
  \E t \in Slots, P \in Requests, e1 \in Endpoints :
    /\ C5_Case(t, P, e1)
    /\ NumChunks(P, chunk_size) >= 1
    /\ NumChunks(tasks[t].request, chunk_size) > NumChunks(P, chunk_size)
    /\ tasks[t].selected = {e1}

\* C10: a lookup with available = {} never matches a chunk: in every state
\* its match_length is 0, its selected set is empty and it is still at the
\* first chunk of its request, whatever the trie holds.
C10_EmptyAvailable ==
  \A t \in Slots :
    (tasks[t].kind \in Lookups /\ tasks[t].available = {}) =>
      /\ tasks[t].match_length = 0
      /\ tasks[t].selected = {}
      /\ tasks[t].i = 0
      /\ tasks[t].pc = "done" =>
           tasks[t].stop = IF tasks[t].request = <<>> THEN "exhausted"
                           ELSE IF GetChild(Root, ChunkHash(tasks[t])) = None
                                THEN "missing" ELSE "empty"

\* A lookup with available = {} of a request of two chunks whose first chunk
\* is in the trie has stopped.
C10_Witness ==
  \E t \in Slots :
    /\ DoneLookup(t)
    /\ tasks[t].available = {}
    /\ NumChunks(tasks[t].request, chunk_size) >= 2
    /\ tasks[t].stop = "empty"
    /\ inserted # {}

\* The node reached from n along the chunk hashes, None when the path ends.
RECURSIVE Walk(_, _)
Walk(n, hashes) ==
  IF hashes = <<>> \/ n = None THEN n
  ELSE Walk(GetChild(n, Head(hashes)), Tail(hashes))

\* The node at depth k of the path of a request.
PathNode(request, k) == Walk(Root, SubSeq(ChunkAndHash(request, chunk_size), 1, k))

Started == {t \in Slots : tasks[t].pc # "idle"}

\* Two or more inserts of one request for distinct endpoints are all the
\* tasks there have been, and all have returned.
C2_Case ==
  /\ Cardinality(Started) >= 2
  /\ \A t \in Started : tasks[t].kind = "insert" /\ tasks[t].pc = "done"
  /\ \A t, u \in Started :
       /\ tasks[t].request = tasks[u].request
       /\ (t # u => tasks[t].endpoint # tasks[u].endpoint)

\* C2: when N inserts of one request for N distinct endpoints have run
\* concurrently and all have returned, every node of the request's path, the
\* root included, holds exactly those N endpoints, under every interleaving.
C2_NoLostUpdate ==
  C2_Case =>
    \A t \in Started :
      \A k \in 0..NumChunks(tasks[t].request, chunk_size) :
        /\ PathNode(tasks[t].request, k) # None
        /\ endpoints[PathNode(tasks[t].request, k)] = {tasks[u].endpoint : u \in Started}

\* The case of C2 on a request of two chunks.
C2_Witness ==
  /\ C2_Case
  /\ \E t \in Started : NumChunks(tasks[t].request, chunk_size) >= 2

\* C6 as stated: whenever a task is in a block that reads or writes a node's
\* children or endpoints, it holds the lock of that same node.
C6_GuardedAccess == \A t \in Slots : Touches(t) \subseteq Held(t)

\* Task t is a lookup that this step created, moved or queued.
LookupStepped(t) ==
  /\ tasks'[t].kind \in Lookups
  /\ \/ tasks'[t] # tasks[t]
     \/ \E n \in Nodes : InQueue(t, n)' /\ ~InQueue(t, n)

\* C7: no step of longest_prefix_match_original or longest_prefix_match_new
\* changes the trie: the nodes, their children and their endpoints stay as
\* they are, also when the looked-up path does not exist.
C7_LookupsReadOnly ==
  [][(\E t \in Slots : LookupStepped(t)) => UNCHANGED trieVars]_vars

\* A lookup has stopped at a chunk that has no node.
C7_Witness ==
  \E t \in Slots :
    /\ DoneLookup(t)
    /\ tasks[t].kind = "new"
    /\ tasks[t].stop = "missing"
    /\ tasks[t].i >= 1

\* C8: the trie is append-only: across every step no node goes away, every
\* node's endpoints set keeps what it had, and every children entry keeps the
\* node it was bound to.
C8_AppendOnly ==
  [][ /\ Len(children') >= Len(children)
      /\ \A n \in Nodes :
           /\ endpoints[n] \subseteq endpoints'[n]
           /\ \A h \in DOMAIN children[n] :
                h \in DOMAIN children'[n] /\ children'[n][h] = children[n][h] ]_vars

\* A node below the root has taken a second endpoint.
C8_Witness ==
  \E n \in Nodes \ {Root} : Cardinality(endpoints[n]) >= 2

\* A lookup returns in this step only with its request exhausted, at a chunk
\* hash that has no child, or on an empty intersection.
StopsForAReason(t) ==
  LET tk == tasks[t] IN
  (tk.kind \in Lookups /\ tk.pc # "done" /\ tasks'[t].pc = "done") =>
    \/ tasks'[t].i = NumChunks(tk.request, chunk_size)
    \/ tk.pc \in {"a56", "b76"} /\ GetChild(tk.node, ChunkHash(tk)) = None
    \/ tk.pc = "a56" /\ endpoints[GetChild(tk.node, ChunkHash(tk))] \cap tk.selected = {}
    \/ tk.pc = "b81" /\ tk.copy \cap tk.selected = {}

\* A lookup is created already returned only for a request without chunks.
CreatedForAReason(t) ==
  (tasks[t].pc = "idle" /\ tasks'[t].pc = "done") => tasks'[t].request = <<>>

\* C9: under fair scheduling every task returns (no task waits for a node
\* lock forever), and a lookup returns only because its request is exhausted,
\* the next chunk hash has no child, or the intersection is empty.
C9_EveryTaskReturns ==
  /\ \A t \in Slots : (tasks[t].pc # "idle") ~> (tasks[t].pc = "done")
  /\ [][\A t \in Slots : StopsForAReason(t) /\ CreatedForAReason(t)]_vars

\* A task is queued on a lock that another task holds.
C9_Witness ==
  \E t \in Slots, n \in Nodes : InQueue(t, n) /\ lock[n] \notin {0, t}

\* Task t runs insert on a (request, endpoint) pair whose insert has already
\* returned once.
Reinsert(t) ==
  /\ tasks[t].kind = "insert"
  /\ <<tasks[t].request, tasks[t].endpoint>> \in inserted

\* C11: insert is idempotent: no step of an insert(request, endpoint) that
\* runs after an insert of the same request and endpoint has returned changes
\* the trie: the nodes, their children and their endpoints sets are after the
\* second run what they were after the first.
C11_InsertIdempotent ==
  [][(\E t \in Slots : Reinsert(t)) => UNCHANGED trieVars]_vars

\* A second insert of a pair is at its second chunk's node.
C11_Witness ==
  \E t \in Slots :
    /\ Reinsert(t)
    /\ tasks[t].pc = "i46"
    /\ tasks[t].i >= 1

\* C12: the root's endpoints set accumulates every endpoint ever inserted:
\* once insert(request, endpoint) has returned, for any request, the empty
\* one included, the endpoint is in root.endpoints; and in every reachable
\* state, with inserts under way, an endpoint in any node's endpoints set is
\* in root.endpoints.
C12_RootAccumulates ==
  ctor = "ok" =>
    /\ \A p \in inserted : p[2] \in endpoints[Root]
    /\ \A n \in Nodes : endpoints[n] \subseteq endpoints[Root]

\* An insert of the empty request has returned, and a node below the root
\* holds the endpoint of an insert of a non-empty request.
C12_Witness ==
  /\ \E p \in inserted : p[1] = <<>>
  /\ \E n \in Nodes \ {Root}, t \in Slots :
       /\ tasks[t].kind = "insert"
       /\ tasks[t].request # <<>>
       /\ tasks[t].endpoint \in endpoints[n]

\* C13: HashTrie(chunk_size) with chunk_size = 0 or a negative chunk_size
\* fails with the ValueError and construction stops there: there is no trie,
\* no chunk_size and no root node, and so nothing runs on one.
C13_BadChunkSizeFails ==
  (ctor # "none" /\ chunk_size_arg.isint /\ chunk_size_arg.val <= 0) =>
    /\ ctor = "error"
    /\ chunk_size = 0
    /\ Nodes = {}
    /\ lock = <<>> /\ waiters = <<>>
    /\ \A t \in Slots : tasks[t] = IdleTask

\* HashTrie(-1) has raised.
C13_Witness ==
  /\ ctor = "error"
  /\ chunk_size_arg = [isint |-> TRUE, val |-> -1]
  /\ children = <<>> /\ endpoints = <<>>

\* The least q with q * d >= n.
CeilDiv(n, d) == CHOOSE q \in 0..n : q * d >= n /\ (q = 0 \/ (q - 1) * d < n)

RECURSIVE Concat(_)
Concat(ws) == IF ws = <<>> THEN <<>> ELSE Head(ws) \o Concat(Tail(ws))

\* C14: for every chunk_size > 0 and every text of length L >= 0, the
\* finished _chunk_and_hash generator has yielded exactly ceil(L / chunk_size)
\* hashes (none for the empty text), taken of consecutive windows that do not
\* overlap and together are the text; every window has chunk_size characters
\* except possibly the last, which has L mod chunk_size when that is not 0.
\* The sequence is the one the tasks of the model iterate.
C14_Windows ==
  gen.state = "finished" =>
    LET L == Len(gen.text)
        n == Len(gen.windows)
    IN /\ n = CeilDiv(L, chunk_size)
       /\ Len(gen.hashes) = n
       /\ Concat(gen.windows) = gen.text
       /\ \A k \in 1..(n - 1) : Len(gen.windows[k]) = chunk_size
       /\ n > 0 => Len(gen.windows[n]) =
                     IF L % chunk_size = 0 THEN chunk_size ELSE L % chunk_size
       /\ \A k \in 1..n : gen.hashes[k] = XXH64(gen.windows[k])
       /\ gen.hashes = ChunkAndHash(gen.text, chunk_size)

\* A text of three characters has been cut into a window of two and a last
\* window of one.
C14_Witness ==
  /\ gen.state = "finished"
  /\ Len(gen.text) = 3
  /\ chunk_size = 2
  /\ Len(gen.windows) = 2
  /\ Len(gen.windows[2]) = 1

\* The edges of the trie: (node, chunk hash) pairs bound in children.
Edges == {e \in Nodes \X (0..(HashSpace - 1)) : e[2] \in DOMAIN children[e[1]]}

\* The edges that lead to node n.
EdgesTo(n) == {e \in Edges : children[e[1]][e[2]] = n}

\* The number of edges insert task t has descended.
Descended(t) == IF tasks[t].pc \in {"i45", "i46"} THEN tasks[t].i + 1 ELSE tasks[t].i

\* C15: under every interleaving of inserts an edge gets one child node,
\* created once: every node but the root is the child of exactly one edge,
\* the edge of an older node (so the structure is a tree with one node per
\* chunk-hash path), and every insert is at the node of its request's path,
\* which holds its endpoint once the insert has gone past it.
C15_OneChildPerEdge ==
  ctor = "ok" =>
    /\ EdgesTo(Root) = {}
    /\ \A n \in Nodes \ {Root} : Cardinality(EdgesTo(n)) = 1
    /\ \A e \in Edges : children[e[1]][e[2]] \in Nodes /\ children[e[1]][e[2]] > e[1]
    /\ \A t \in Slots :
         tasks[t].kind = "insert" =>
           /\ tasks[t].node = PathNode(tasks[t].request, Descended(t))
           /\ \A k \in 1..tasks[t].i :
                tasks[t].endpoint \in endpoints[PathNode(tasks[t].request, k)]

\* Two inserts that were under way together have both descended the one edge
\* there is, into the one node that was created for it.
C15_Witness ==
  /\ Len(children) = 2
  /\ \A t \in Slots :
       /\ tasks[t].kind = "insert"
       /\ tasks[t].pc \in {"i45", "i46"}
       /\ tasks[t].node = 2

\* The positions inside an `async with node.lock` block.
InsidePcs == {Inside(pc) : pc \in AcquirePcs}

\* C16: a task holds at most one node lock at every point: inside a block it
\* holds the lock of the node it is at and no other; when it asks for a lock
\* (insert and longest_prefix_match_new ask for the child's after the
\* parent's block) it holds none; longest_prefix_match_new computes the
\* intersection (lines 81-86) holding none; a returned task holds none.
C16_OneGuardAtATime ==
  \A t \in Slots :
    /\ Cardinality(Held(t)) <= 1
    /\ tasks[t].pc \in InsidePcs => Held(t) = {tasks[t].node}
    /\ tasks[t].pc \notin InsidePcs => Held(t) = {}

\* longest_prefix_match_new is about to intersect a copy it took, holding no
\* lock, while an insert that has left its parent's block holds the lock of
\* the child.
C16_Witness ==
  \E t, u \in Slots :
    /\ tasks[t].kind = "new" /\ tasks[t].pc = "b81" /\ tasks[t].copy # {}
    /\ Held(t) = {}
    /\ tasks[u].kind = "insert" /\ tasks[u].pc = "i46"
    /\ Held(u) = {tasks[u].node}

\* C17 as stated: when a lookup of either method has stopped at a chunk hash
\* that has no child or on an empty intersection, its current node (the
\* local `node`) is the last matched node, the one at depth match_length /
\* chunk_size of the request's path (the root when nothing matched): not the
\* child that was looked at, and not an absent node.
C17_NodeIsLastMatched ==
  \A t \in Slots :
    (DoneLookup(t) /\ tasks[t].stop \in {"missing", "empty"}) =>
      tasks[t].node = PathNode(tasks[t].request, tasks[t].match_length \div chunk_size)

\* On a new trie, task u is the one insert(P, e), P of two chunks or more,
\* and task t the one lookup of P with available = {e}; the lookup has
\* returned.
C18_Case(t, u) ==
  /\ Started = {t, u} /\ t # u
  /\ tasks[u].kind = "insert"
  /\ NumChunks(tasks[u].request, chunk_size) >= 2
  /\ DoneLookup(t)
  /\ tasks[t].request = tasks[u].request
  /\ tasks[t].available = {tasks[u].endpoint}

C19_NestedEndpoints ==
  \A e \in Edges : endpoints[children[e[1]][e[2]]] \subseteq endpoints[e[1]]

\* An insert is between the blocks of its first and second chunk: the node
\* of the second chunk, below a node that is not the root, holds an endpoint
\* and does not yet hold the one its parent has just taken.
C19_Witness ==
  \E e \in Edges, t \in Slots :
    /\ e[1] # Root
    /\ endpoints[children[e[1]][e[2]]] # {}
    /\ tasks[t].kind = "insert" /\ tasks[t].pc \in {"i39", "i40", "i45", "i46"}
    /\ tasks[t].endpoint \in endpoints[e[1]] \ endpoints[children[e[1]][e[2]]]

\* C20: a lookup of either method that runs while inserts run ends between
\* the two results it could have had alone: its match_length is at least the
\* one a lookup would reach on the trie as it was when this lookup started,
\* and at most the one a lookup reaches on the trie as it is when (and after)
\* this lookup has returned; its selected endpoints are among the available
\* ones all along.
C20_BetweenStartAndFinish ==
  \A t \in Slots :
    tasks[t].kind \in Lookups =>
      /\ tasks[t].selected \subseteq tasks[t].available
      /\ tasks[t].pc = "done" =>
           /\ tasks[t].start_match <= tasks[t].match_length
           /\ tasks[t].match_length <= LookupAlone(tasks[t].request, tasks[t].available)

\* longest_prefix_match_original has returned with more than the trie held
\* when it started and less than the trie holds now that the insert it ran
\* with has returned.
C20_Witness ==
  \E t, u \in Slots :
    /\ tasks[t].kind = "original" /\ tasks[t].pc = "done"
    /\ tasks[u].kind = "insert" /\ tasks[u].pc = "done"
    /\ tasks[t].start_match < tasks[t].match_length
    /\ tasks[t].match_length < LookupAlone(tasks[t].request, tasks[t].available)
====
